---- MODULE Spec2Model ----
(***************************************************************************)
(* Model of ram_monitor.py: a sched.scheduler that re-enters `daemon`      *)
(* every CHECK_INTERVAL seconds; each firing runs check_ram, which reads   *)
(* the memory statistics and POSTs an alert when usage exceeds             *)
(* USAGE_THRESHOLD.                                                        *)
(*                                                                         *)
(* Time is a discrete clock `now` (time.time).  Only the blocking calls    *)
(* take time: psutil.virtual_memory(), requests.post() and time.sleep().   *)
(* time.sleep(d) is taken to return exactly d later (oversleep and the     *)
(* cost of ordinary statements are below the clock's resolution).          *)
(* ram.percent is a float with one decimal; it is kept in tenths of a      *)
(* percent so the comparison with the integer threshold stays exact.       *)
(***************************************************************************)
EXTENDS Integers, Sequences, FiniteSets, TLC

VARIABLES now, pc, queue, firings, active, startup_time, curSched, curStart,
          prevStart,
          percent_used, reads, posts, outcome, prevOutcome, raised, log,
          overrun

vars == <<now, pc, queue, firings, active, startup_time, curSched, curStart,
          prevStart,
          percent_used, reads, posts, outcome, prevOutcome, raised, log,
          overrun>>

\* ---- program constants ----
USAGE_THRESHOLD == 50
CHECK_INTERVAL == 5

\* ---- bounds of the model ----
MaxFirings == 4
MaxReadDur == 2
MaxPostDur == 4

\* ---- inputs ----
StartTimes == {0, 3}
Samples == {0, 499, 500, 501, 1000}
StatusCodes == {200, 201, 404, 500}
NetworkFailures == {"Timeout", "ConnectionError"}
NoSample == -1
NoException == "none"

\* what requests.post did: returned a response, or raised
Response(status) == [exc |-> NoException, status_code |-> status]
Raise(e) == [exc |-> e, status_code |-> 0]
NoOutcome == [exc |-> NoException, status_code |-> 0]
Outcomes == {Response(s) : s \in StatusCodes} \cup {Raise(e) : e \in NetworkFailures}

\* ---- sched.scheduler ----
Event(t) == [time |-> t, priority |-> 1, action |-> "daemon"]

Enterabs(q, ev) ==
    SelectSeq(q, LAMBDA e : e.time <= ev.time) \o <<ev>>
        \o SelectSeq(q, LAMBDA e : e.time > ev.time)

EnterBaseScheduled == curSched
EnterBase == now

Enter(q, delay) == Enterabs(q, Event(EnterBase + delay))

InitialDelay == 0

RescheduleOmitted(q) == q
Reschedule(q) == Enter(q, CHECK_INTERVAL)

CanDispatchConcurrent == pc \in {"run", "read", "post"}
CanDispatch == pc = "run"

SleepDelayFullInterval(t, n) == CHECK_INTERVAL
SleepDelay(t, n) == t - n

\* ---- daemon / check_ram / send_alert ----
DaemonEntryCheckFirst == "read"
DaemonEntry == "enter"

ExceedsInclusive(p) == p >= USAGE_THRESHOLD * 10
Exceeds(p) == p > USAGE_THRESHOLD * 10

Line(level, src) == [level |-> level, src |-> src]

ReadFailureLogged == <<Line("ERROR", "check_ram")>>
ReadFailureLog == <<>>

AfterReadFailureCaught == "run"
AfterReadFailure == "crashed"

CatchesOnlyTimeout(e) == e = "Timeout"
Catches(e) == e \in {"Timeout", "ConnectionError"}

SuccessAny2xx(status) == status >= 200 /\ status < 300
Success(status) == status = 200

SendAlertLine(o) ==
    IF o.exc = NoException
    THEN IF Success(o.status_code) THEN <<Line("INFO", "send_alert")>>
                                   ELSE <<Line("ERROR", "send_alert")>>
    ELSE IF Catches(o.exc) THEN <<Line("ERROR", "send_alert")>> ELSE <<>>

SendAlertRaised(o) ==
    IF o.exc = NoException \/ Catches(o.exc) THEN NoException ELSE o.exc

Init ==
    /\ now \in StartTimes
    /\ pc = "setup"
    /\ queue = <<>>
    /\ firings = 0
    /\ active = 0
    /\ startup_time = now
    /\ curSched = now
    /\ curStart = now
    /\ prevStart = now
    /\ percent_used = NoSample
    /\ reads = 0
    /\ posts = 0
    /\ outcome = NoOutcome
    /\ prevOutcome = NoOutcome
    /\ raised = NoException
    /\ log = <<>>
    /\ overrun = FALSE

\* set_up_scheduler: handler.enter(0, 1, daemon, ...); handler.run()
SetUpScheduler ==
    /\ pc = "setup"
    /\ queue' = Enter(queue, InitialDelay)
    /\ pc' = "run"
    /\ UNCHANGED <<now, firings, active, startup_time, curSched, curStart, prevStart,
                   percent_used, reads, posts, outcome, prevOutcome, raised,
                   log, overrun>>

\* one iteration of sched.scheduler.run: return when the queue is empty,
\* sleep until the head event is due, or pop it and call its action.
Run ==
    /\ CanDispatch
    /\ IF queue = <<>>
       THEN /\ pc' = "returned"
            /\ UNCHANGED <<now, queue, firings, active, startup_time, prevStart,
                           curSched, curStart, percent_used, reads, posts,
                           outcome, prevOutcome, raised, log, overrun>>
       ELSE IF Head(queue).time > now
       THEN /\ now' = now + SleepDelay(Head(queue).time, now)
            /\ pc' = "run"
            /\ UNCHANGED <<queue, firings, active, startup_time, curSched,
                           curStart, prevStart, percent_used, reads, posts, outcome,
                           prevOutcome, raised, log, overrun>>
       ELSE /\ firings < MaxFirings
            /\ queue' = Tail(queue)
            /\ pc' = DaemonEntry
            /\ firings' = firings + 1
            /\ active' = active + 1
            /\ curSched' = Head(queue).time
            /\ curStart' = now
            /\ prevStart' = curStart
            /\ percent_used' = NoSample
            /\ reads' = 0
            /\ posts' = 0
            /\ prevOutcome' = outcome
            /\ outcome' = NoOutcome
            /\ log' = <<>>
            /\ UNCHANGED <<now, startup_time, raised, overrun>>

\* daemon, first statement: local_handler.enter(CHECK_INTERVAL, 1, daemon, ...)
DaemonEnter ==
    /\ pc = "enter"
    /\ queue' = Reschedule(queue)
    /\ pc' = "read"
    /\ UNCHANGED <<now, firings, active, startup_time, curSched, curStart, prevStart,
                   percent_used, reads, posts, outcome, prevOutcome, raised,
                   log, overrun>>

\* check_ram with a successful get_ram_info: the read takes d, then either
\* the status line is logged and the cycle returns to the scheduler, or the
\* critical line is logged and send_alert enters requests.post.
CheckRam ==
    /\ pc = "read"
    /\ \E d \in 0..MaxReadDur, p \in Samples :
          /\ now' = now + d
          /\ percent_used' = p
          /\ reads' = reads + 1
          /\ IF Exceeds(p)
             THEN /\ log' = log \o <<Line("CRITICAL", "check_ram")>>
                  /\ posts' = posts + 1
                  /\ pc' = "post"
                  /\ UNCHANGED <<active, overrun>>
             ELSE /\ log' = log \o <<Line("INFO", "check_ram")>>
                  /\ pc' = "run"
                  /\ active' = active - 1
                  /\ overrun' = (overrun \/ (now + d) - curStart > CHECK_INTERVAL)
                  /\ UNCHANGED posts
    /\ UNCHANGED <<queue, firings, startup_time, curSched, curStart, prevStart, outcome,
                   prevOutcome, raised>>

\* check_ram when psutil.virtual_memory() raises: nothing in check_ram,
\* daemon, scheduler.run or __main__ catches it.
ReadFails ==
    /\ pc = "read"
    /\ \E d \in 0..MaxReadDur :
          now' = now + d
    /\ reads' = reads + 1
    /\ raised' = "ReadError"
    /\ log' = log \o ReadFailureLog
    /\ pc' = AfterReadFailure
    /\ active' = active - 1
    /\ UNCHANGED <<queue, firings, startup_time, curSched, curStart, prevStart,
                   percent_used, posts, outcome, prevOutcome, overrun>>

\* send_alert: requests.post returns a response or raises after d; one log
\* line; then check_ram and daemon return to the scheduler.
SendAlert ==
    /\ pc = "post"
    /\ \E d \in 0..MaxPostDur, o \in Outcomes :
          /\ now' = now + d
          /\ outcome' = o
          /\ log' = log \o SendAlertLine(o)
          /\ raised' = SendAlertRaised(o)
          /\ pc' = IF SendAlertRaised(o) = NoException THEN "run" ELSE "crashed"
          /\ overrun' = (overrun \/ (now + d) - curStart > CHECK_INTERVAL)
    /\ active' = active - 1
    /\ UNCHANGED <<queue, firings, startup_time, curSched, curStart, prevStart,
                   percent_used, reads, posts, prevOutcome>>

Next ==
    \/ SetUpScheduler
    \/ Run
    \/ DaemonEnter
    \/ CheckRam
    \/ ReadFails
    \/ SendAlert

Spec == Init /\ [][Next]_vars

FairSpec ==
    /\ Spec
    /\ WF_vars(Run)
    /\ WF_vars(DaemonEnter)
    /\ WF_vars(CheckRam \/ ReadFails)
    /\ WF_vars(SendAlert)

\* ---- helpers of the properties ----
SendAlertLines == SelectSeq(log, LAMBDA l : l.src = "send_alert")
CheckRamLines == SelectSeq(log, LAMBDA l : l.src = "check_ram")
Delivered(o) == o.exc = NoException /\ o.status_code = 200
FailedDelivery(o) == o # NoOutcome /\ ~Delivered(o)
InCycle == pc \in {"enter", "read", "post"}

\* C1: in every cycle that obtained a sample, no POST is issued (and
\* send_alert is not called) when percent_used <= USAGE_THRESHOLD, and exactly
\* one POST is attempted when percent_used > USAGE_THRESHOLD, whatever its
\* outcome; never more than one POST in a cycle.
C1_OnePostIffAboveThreshold ==
    /\ posts \in {0, 1}
    /\ percent_used = NoSample => posts = 0
    /\ (percent_used # NoSample /\ percent_used <= USAGE_THRESHOLD * 10)
          => (posts = 0 /\ outcome = NoOutcome /\ SendAlertLines = <<>>)
    /\ (percent_used # NoSample /\ percent_used > USAGE_THRESHOLD * 10)
          => posts = 1
    /\ outcome # NoOutcome => posts = 1

C1_Witness ==
    /\ pc = "run"
    /\ percent_used = 501
    /\ posts = 1
    /\ outcome = Response(500)

\* C2: a failed delivery (network exception or non-200 status) does not
\* escape send_alert: nothing is raised, the cycle has returned to the
\* scheduler, exactly one POST was made, the successor firing is still queued
\* at the same time, and the firing after a failed delivery is the one the
\* previous firing scheduled.
C2_FailedDeliveryContained ==
    /\ FailedDelivery(outcome) =>
          /\ raised = NoException
          /\ pc = "run"
          /\ active = 0
          /\ posts = 1
          /\ queue = <<Event(curStart + CHECK_INTERVAL)>>
    /\ FailedDelivery(prevOutcome) =>
          /\ firings >= 2
          /\ curSched = prevStart + CHECK_INTERVAL
          /\ curStart >= curSched

C2_Witness ==
    /\ prevOutcome = Raise("ConnectionError")
    /\ firings >= 2
    /\ pc = "read"

\* C3: every finished call of send_alert has emitted exactly one log line:
\* INFO iff the response status is exactly 200, ERROR for any other status
\* and for a network exception; no line before the call finishes, and no
\* outcome raises.
C3_OneLinePerSendAlert ==
    /\ (posts = 1 /\ pc # "post") =>
          /\ Len(SendAlertLines) = 1
          /\ SendAlertLines[1].level \in {"INFO", "ERROR"}
          /\ SendAlertLines[1].level = "INFO" <=>
                (outcome.exc = NoException /\ outcome.status_code = 200)
          /\ raised = NoException
    /\ (posts = 0 \/ pc = "post") => SendAlertLines = <<>>

C3_Witness ==
    /\ outcome = Response(201)
    /\ SendAlertLines = <<Line("ERROR", "send_alert")>>
    /\ pc = "run"

\* C4 as stated: the cycle fires at startup with delay 0, and each later
\* firing is scheduled at the previous firing's SCHEDULED time plus
\* CHECK_INTERVAL, also after an overrun made a firing start late.
C4_Original ==
    /\ firings = 1 => (curSched = startup_time /\ curStart = startup_time)
    /\ (firings >= 1 /\ pc # "enter" /\ queue # <<>>)
          => Head(queue).time = curSched + CHECK_INTERVAL

\* C4 amended: the cycle fires at startup with delay 0, and each later firing
\* is scheduled at the time the previous firing actually started (when daemon
\* called enter) plus CHECK_INTERVAL; that is the previous firing's scheduled
\* time plus CHECK_INTERVAL only when the previous firing started on time.
C4_ScheduledFromActualStart ==
    /\ firings = 1 => (curSched = startup_time /\ curStart = startup_time)
    /\ (firings >= 1 /\ pc # "enter" /\ queue # <<>>)
          => /\ Head(queue).time = curStart + CHECK_INTERVAL
             /\ curStart = curSched
                  => Head(queue).time = curSched + CHECK_INTERVAL
    /\ firings >= 2 => curSched = prevStart + CHECK_INTERVAL
    /\ curStart >= curSched

C4_Witness ==
    /\ firings >= 2
    /\ curStart > curSched
    /\ pc = "read"
    /\ queue = <<Event(curStart + CHECK_INTERVAL)>>

\* C5: while no cycle has taken longer than CHECK_INTERVAL and none has
\* raised, the n-th firing starts at startup_time + (n-1)*CHECK_INTERVAL,
\* whatever time the earlier cycles took.
C5_NthFiringOnGrid ==
    (firings >= 1 /\ ~overrun /\ raised = NoException)
        => /\ curStart = startup_time + (firings - 1) * CHECK_INTERVAL
           /\ curSched = curStart

C5_Witness ==
    /\ firings = 3
    /\ ~overrun
    /\ pc = "run"
    /\ now = curStart + CHECK_INTERVAL
    /\ curStart = startup_time + 2 * CHECK_INTERVAL
    /\ prevOutcome # NoOutcome

\* C6: at most one invocation of daemon/check_ram is in progress in every
\* state, and a firing begins only when no invocation is in progress, also
\* when the previous cycle overran (the firing is then late).
C6_NoOverlap ==
    /\ [](active \in {0, 1} /\ (active = 1 <=> InCycle))
    /\ [][firings' # firings =>
            (active = 0 /\ active' = 1 /\ now' >= Head(queue).time)]_vars

C6_Witness ==
    /\ firings >= 2
    /\ curStart > curSched
    /\ active = 1
    /\ pc = "post"

\* C7: scheduler.run never returns: it never finds the queue empty, and
\* every firing is followed by a further firing unless an exception has
\* ended the process, for all samples and delivery outcomes.
C7_RunNeverReturns ==
    /\ [](pc # "returned")
    /\ [](pc = "run" => queue # <<>>)
    /\ \A n \in 1..(MaxFirings - 1) :
          (firings = n) ~> (firings = n + 1 \/ raised # NoException)

C7_Witness ==
    /\ firings = MaxFirings
    /\ prevOutcome = Raise("Timeout")
    /\ pc = "run"
    /\ Len(queue) = 1
    /\ raised = NoException

\* C8 as stated: a failed read is logged, propagates out of check_ram, ends
\* the cycle with no status line and no dispatch and no second read, and is
\* the only thing that makes check_ram raise.
C8_Original ==
    raised # NoException =>
        /\ raised = "ReadError"
        /\ log # <<>>
        /\ \A i \in 1..Len(log) : log[i].level # "INFO"
        /\ posts = 0
        /\ outcome = NoOutcome
        /\ percent_used = NoSample
        /\ reads = 1

\* C8 amended: a failed read propagates out of check_ram uncaught and ends
\* the cycle; the program logs nothing in that cycle (no failure line, no
\* status line), dispatches nothing and does not read again; it is the only
\* thing that makes check_ram raise.
C8_ReadFailurePropagatesUnlogged ==
    /\ raised # NoException =>
          /\ raised = "ReadError"
          /\ pc # "run"
          /\ log = <<>>
          /\ posts = 0
          /\ outcome = NoOutcome
          /\ percent_used = NoSample
          /\ reads = 1
    /\ reads \in {0, 1}
    /\ (percent_used # NoSample \/ outcome # NoOutcome) => raised = NoException

C8_Witness ==
    /\ raised = "ReadError"
    /\ reads = 1
    /\ log = <<>>
    /\ prevOutcome = Response(200)

\* C9: daemon enqueues the successor before check_ram reads or dispatches;
\* the queue never holds more than one firing and holds exactly one from
\* that enqueue until the successor is popped, in particular during the read
\* and the POST.
C9_ScheduleNextThenExecute ==
    /\ Len(queue) <= 1
    /\ pc = "enter" => (queue = <<>> /\ reads = 0 /\ posts = 0)
    /\ pc \in {"read", "post", "run", "crashed"} => Len(queue) = 1
    /\ (reads > 0 \/ posts > 0) => queue = <<Event(curStart + CHECK_INTERVAL)>>

C9_Witness ==
    /\ pc = "post"
    /\ Len(queue) = 1
    /\ firings >= 2
    /\ now > curStart

\* C10: after a read failure the monitor is dead although the successor is
\* still queued: no later step fires a cycle, reads, or dispatches.
C10_ReadFailureEndsMonitor ==
    /\ [](raised = "ReadError" =>
            (pc = "crashed" /\ active = 0
               /\ queue = <<Event(curStart + CHECK_INTERVAL)>>))
    /\ [][raised # NoException =>
            (firings' = firings /\ posts' = posts /\ reads' = reads
               /\ pc' = "crashed")]_vars

C10_Witness ==
    /\ raised = "ReadError"
    /\ pc = "crashed"
    /\ Len(queue) = 1
    /\ firings >= 2
    /\ prevOutcome # NoOutcome

TypeOK ==
    /\ now \in Nat
    /\ pc \in {"setup", "run", "enter", "read", "post", "crashed", "returned"}
    /\ firings \in 0..MaxFirings
    /\ percent_used \in Samples \cup {NoSample}
    /\ outcome \in Outcomes \cup {NoOutcome}
    /\ overrun \in BOOLEAN
====
